---- MODULE Spec2Model ----
(***************************************************************************)
(* A model of cyclopts' Argument / ArgumentCollection matching, token      *)
(* accumulation and conversion (src/cyclopts/argument.py) and of Group     *)
(* ordering (src/cyclopts/group.py).                                       *)
(*                                                                         *)
(* Python strings are sequences of one-character strings, tuples are       *)
(* sequences, Optional[int] is the empty sequence (None) or a one-element  *)
(* sequence.  An exception is the "exc" field of an operation's outcome.   *)
(***************************************************************************)
EXTENDS Integers, Sequences, FiniteSets, TLC

\* ---------------------------------------------------------------- bounds
\* Largest number of parameters of the callable an ArgumentCollection is
\* built from.
MaxParams == 2
\* Largest number of tokens appended to one Argument.
MaxTokens == 3
\* Largest number of Group objects created in one run.
MaxGroups == 3
\* Largest number of names in a tuple given to _resolve_parameter_name.
MaxNames == 2
\* Largest number of sub-commands registered on an App.
MaxCommands == 2

\* -------------------------------------------------------------- variables
VARIABLES
    arguments,          \* the ArgumentCollection: a sequence of Argument
    outcome,            \* what the last operation returned or raised
    _sort_key_counter,  \* group.py: itertools.count() behind create_ordered
    groups              \* the Group objects created so far, in creation order

vars == <<arguments, outcome, _sort_key_counter, groups>>

\* ---------------------------------------------------------------- strings
\* str.startswith
StartsWith(s, prefix) ==
    /\ Len(prefix) <= Len(s)
    /\ SubSeq(s, 1, Len(prefix)) = prefix

\* s[n:]
DropFirst(s, n) == SubSeq(s, n + 1, Len(s))

\* str.lstrip(c) for a one-character c
RECURSIVE LStrip(_, _)
LStrip(s, c) ==
    IF s # <<>> /\ s[1] = c THEN LStrip(Tail(s), c) ELSE s

\* str.split(d) for a one-character d: the pieces between the occurrences
\* of d, empty pieces included.
RECURSIVE Split(_, _)
Split(s, d) ==
    IF \A i \in 1..Len(s) : s[i] # d
    THEN <<s>>
    ELSE LET i == CHOOSE k \in 1..Len(s) :
                      s[k] = d /\ \A j \in 1..(k - 1) : s[j] # d
         IN  <<SubSeq(s, 1, i - 1)>> \o Split(DropFirst(s, i), d)

\* The names and terms of the model.
Str_f     == <<"-", "-", "f">>                 \* "--f"
Str_f_b   == <<"-", "-", "f", ".", "b">>       \* "--f.b"
Str_no_f  == <<"-", "-", "n", "-", "f">>       \* "--n-f"
Str_KW    == <<"-", "-", "[", "K", "]">>       \* "--[K]", the catch-all name
Str_ARGS  == <<"A">>                           \* upper-cased positional name

\* -------------------------------------------------------------- outcomes
None == "None"
UNSET == "UNSET"

\* A returned (leftover keys, implicit value) pair.
Returned(keys, implicit_value) ==
    [exc |-> "none", keys |-> keys, implicit_value |-> implicit_value]

\* A raised exception.
Raised(exc) == [exc |-> exc, keys |-> <<>>, implicit_value |-> None]

\* ------------------------------------------------------------ type hints
\* inspect.Parameter kinds.
POSITIONAL_ONLY == "POSITIONAL_ONLY"
POSITIONAL_OR_KEYWORD == "POSITIONAL_OR_KEYWORD"
VAR_POSITIONAL == "VAR_POSITIONAL"
KEYWORD_ONLY == "KEYWORD_ONLY"
VAR_KEYWORD == "VAR_KEYWORD"

\* The hints of the model: int, bool, list[bool], dict[str, int],
\* tuple[int, ...] (the hint of a *args: int parameter), Record, a
\* dataclass with the one field  b: int, and Movie, a TypedDict with the
\* fields  b: int  and  c: NotRequired[int].
BuiltinHints == {"int", "bool", "list[bool]", "tuple[int,...]"}
DictHints == {"dict[str,int]"}
DataclassHints == {"Record"}
TypedDictHints == {"Movie"}

\* typing.get_origin(hint) or hint
Origin(hint) ==
    CASE hint = "list[bool]" -> "list"
      [] hint = "dict[str,int]" -> "dict"
      [] hint = "tuple[int,...]" -> "tuple"
      [] OTHER -> hint

\* hint.__annotations__ of a TypedDict, in field order
TypedDictFields(hint) ==
    IF hint = "Movie" THEN << <<(<<"b">>), "int">>, <<(<<"c">>), "int">> >> ELSE <<>>

\* _typed_dict_required_optional(typeddict)[0]
RequiredKeys(hint) == IF hint = "Movie" THEN {<<"b">>} ELSE {}

\* {k: v.type for k, v in hint.__dataclass_fields__.items()}, in field order
DataclassFields(hint) ==
    IF hint = "Record" THEN << <<(<<"b">>), "int">> >> ELSE <<>>

\* ------------------------------------------------- _resolve_parameter_name
EndsWith(s, c) == s # <<>> /\ s[Len(s)] = c

\* ResolveOne without the "--" that stands in for an empty parent name.
ResolveOneNoDashes(a1, a2s) ==
    IF ~EndsWith(a1, "*") /\ ~StartsWith(a1, <<"-">>)
    THEN <<>>
    ELSE LET stripped == IF EndsWith(a1, "*") THEN SubSeq(a1, 1, Len(a1) - 1) ELSE a1
             prefix == IF ~EndsWith(stripped, ".") THEN stripped \o <<".">>
                       ELSE stripped
         IN  [j \in 1..Len(a2s) |->
                 IF StartsWith(a2s[j], <<"-">>) THEN a2s[j] ELSE prefix \o a2s[j]]

\* ResolveOne for a parent name that gets no "." appended.
ResolveOneNoDot(a1, a2s) ==
    IF ~EndsWith(a1, "*") /\ ~StartsWith(a1, <<"-">>)
    THEN <<>>
    ELSE LET stripped == IF EndsWith(a1, "*") THEN SubSeq(a1, 1, Len(a1) - 1) ELSE a1
             prefix == IF stripped = <<>> THEN <<"-", "-">> ELSE stripped
         IN  [j \in 1..Len(a2s) |->
                 IF StartsWith(a2s[j], <<"-">>) THEN a2s[j] ELSE prefix \o a2s[j]]

\* The names one parent name a1 contributes for the child names a2s.
ResolveOne(a1, a2s) ==
    IF ~EndsWith(a1, "*") /\ ~StartsWith(a1, <<"-">>)
    THEN <<>>
    ELSE LET stripped == IF EndsWith(a1, "*") THEN SubSeq(a1, 1, Len(a1) - 1) ELSE a1
             prefix == IF stripped = <<>> THEN <<"-", "-">>
                       ELSE IF ~EndsWith(stripped, ".") THEN stripped \o <<".">>
                       ELSE stripped
         IN  [j \in 1..Len(a2s) |->
                 IF StartsWith(a2s[j], <<"-">>) THEN a2s[j] ELSE prefix \o a2s[j]]

RECURSIVE ResolveFirstTwo(_, _)
ResolveFirstTwo(a1s, a2s) ==
    IF a1s = <<>> THEN <<>>
    ELSE ResolveOne(Head(a1s), a2s) \o ResolveFirstTwo(Tail(a1s), a2s)

RECURSIVE _resolve_parameter_name(_)
_resolve_parameter_name(argss) ==
    IF Len(argss) = 0 THEN <<>>
    ELSE IF Len(argss) = 1 THEN argss[1]
    ELSE _resolve_parameter_name(
             <<ResolveFirstTwo(argss[1], argss[2])>> \o SubSeq(argss, 3, Len(argss)))

\* --------------------------------------------------------------- Argument
\* Argument.__attrs_post_init__: what the hint and cparam.accepts_keys make
\* of _assignable, _accepts_keywords, _default and _lookup.
PostInit(hint, accepts_keys) ==
    IF accepts_keys = "False"
    THEN [_assignable |-> TRUE, _accepts_keywords |-> FALSE,
          _default |-> None, _lookup |-> <<>>, _internal_validator |-> None]
    ELSE IF Origin(hint) = "dict"
    THEN [_assignable |-> TRUE, _accepts_keywords |-> TRUE,
          _default |-> "int", _lookup |-> <<>>, _internal_validator |-> None]
    ELSE IF hint \in TypedDictHints
    THEN [_assignable |-> FALSE, _accepts_keywords |-> TRUE,
          _default |-> None, _lookup |-> TypedDictFields(hint),
          _internal_validator |-> "_validate_typed_dict"]
    ELSE IF hint \in DataclassHints
    THEN [_assignable |-> FALSE, _accepts_keywords |-> TRUE,
          _default |-> None, _lookup |-> DataclassFields(hint),
          _internal_validator |-> None]
    ELSE [_assignable |-> TRUE, _accepts_keywords |-> FALSE,
          _default |-> None, _lookup |-> <<>>, _internal_validator |-> None]

\* Argument(iparam=..., cparam=..., keys=..., hint=..., index=...): the
\* attrs constructor with its defaults, then __attrs_post_init__.
\* children holds the positions of the child Arguments in the collection.
Argument(iparam, cparam, keys, hint, index, children) ==
    LET post == PostInit(hint, cparam.accepts_keys)
    IN  [tokens |-> <<>>,
         iparam |-> iparam,
         cparam |-> cparam,
         hint |-> hint,
         index |-> index,
         keys |-> keys,
         _value |-> UNSET,
         _accepts_keywords |-> post._accepts_keywords,
         _default |-> post._default,
         _lookup |-> post._lookup,
         _assignable |-> post._assignable,
         _internal_validator |-> post._internal_validator,
         children |-> children,
         _marked_converted |-> FALSE,
         _mark_converted_override |-> FALSE]

\* Argument.accepts_arbitrary_keywords
accepts_arbitrary_keywords(self) ==
    IF ~self._assignable THEN FALSE
    ELSE "dict" \in {self.hint, Origin(self.hint)}

\* Parameter.get_negatives(hint): the configured negative names, for a
\* boolean or boolean-collection hint; none for any other hint.
get_negatives(cparam, hint) ==
    IF hint \in {"bool", "list[bool]"} THEN cparam.negative ELSE <<>>

\* (get_origin(self.hint) or self.hint)(): the empty value of the origin type
EmptyValue(hint) ==
    CASE Origin(hint) = "bool" -> "False"
      [] Origin(hint) = "list" -> "[]"
      [] Origin(hint) = "dict" -> "{}"
      [] Origin(hint) = "tuple" -> "()"
      [] OTHER -> "0"

\* One for-loop of Argument._match_name over names, from position i: how it
\* ends ("return" on an exact match, "break" on name + delimiter, "else"
\* when the names are exhausted) and the trailing text at a break.
RECURSIVE NameLoop(_, _, _, _)
NameLoop(names, term, delimiter, i) ==
    IF i > Len(names)
    THEN [how |-> "else", trailing |-> <<>>]
    ELSE IF StartsWith(term, names[i])
    THEN LET trailing == DropFirst(term, Len(names[i]))
         IN  IF trailing # <<>>
             THEN IF trailing[1] = delimiter
                  THEN [how |-> "break", trailing |-> Tail(trailing)]
                  ELSE NameLoop(names, term, delimiter, i + 1)
             ELSE [how |-> "return", trailing |-> <<>>]
    ELSE NameLoop(names, term, delimiter, i + 1)

\* The tail of _match_name, reached by a break out of either loop.
AfterBreak(self, trailing, delimiter, implicit_value) ==
    IF ~accepts_arbitrary_keywords(self)
    THEN Raised("ValueError")
    ELSE Returned(Split(trailing, delimiter), implicit_value)

\* Argument._match_name with transform=None.
_match_name(self, term, delimiter) ==
    IF self.iparam.kind = VAR_KEYWORD
    THEN Returned(Split(LStrip(term, "-"), delimiter), None)
    ELSE IF self.cparam.name = <<>>
    THEN Raised("AssertionError")
    ELSE LET positive == NameLoop(self.cparam.name, term, delimiter, 1)
             positive_value == IF self.hint = "bool" THEN "True" ELSE None
             negative == NameLoop(get_negatives(self.cparam, self.hint),
                                  term, delimiter, 1)
             negative_value == EmptyValue(self.hint)
         IN  CASE positive.how = "return" -> Returned(<<>>, positive_value)
               [] positive.how = "break" ->
                      AfterBreak(self, positive.trailing, delimiter, positive_value)
               [] OTHER ->
                      CASE negative.how = "return" -> Returned(<<>>, negative_value)
                        [] negative.how = "break" ->
                               AfterBreak(self, negative.trailing, delimiter,
                                          negative_value)
                        [] OTHER -> Raised("ValueError")

\* `self.iparam in (self.iparam.KEYWORD_ONLY, self.iparam.VAR_KEYWORD)`:
\* the inspect.Parameter itself, not its kind, is looked up among the kinds,
\* and an inspect.Parameter equals no _ParameterKind.
IparamEqualsKind(iparam, kind) == FALSE

IparamInKinds(iparam, kinds) == \E kind \in kinds : IparamEqualsKind(iparam, kind)

\* Argument._match_index
_match_index(self, index) ==
    IF self.index = <<>> \/ IparamInKinds(self.iparam, {KEYWORD_ONLY, VAR_KEYWORD})
    THEN Raised("ValueError")
    ELSE IF self.iparam.kind = VAR_POSITIONAL
    THEN IF index < self.index[1] THEN Raised("ValueError") ELSE Returned(<<>>, None)
    ELSE IF index # self.index[1]
    THEN Raised("ValueError")
    ELSE Returned(<<>>, None)

\* A term is an int or a str: [isint, n, s].
IntTerm(n) == [isint |-> TRUE, n |-> n, s |-> <<>>]
StrTerm(s) == [isint |-> FALSE, n |-> 0, s |-> s]

\* Argument.match
ArgumentMatch(self, term, delimiter) ==
    IF ~self._assignable
    THEN Raised("ValueError")
    ELSE IF term.isint
    THEN _match_index(self, term.n)
    ELSE _match_name(self, term.s, delimiter)

\* ----------------------------------------------------- ArgumentCollection
\* What ArgumentCollection.match returns: the position of the matched
\* Argument in the collection, the leftover keys, the implicit value.
NoBest == [argument |-> 0, keys |-> <<>>, implicit_value |-> None]

\* IsBetter with <= for <: a later Argument with as many leftover keys wins.
IsBetterOrEqual(match_keys, best) ==
    best.argument = 0 \/ Len(match_keys) <= Len(best.keys)

\* `best_match_keys is None or len(match_keys) < len(best_match_keys)`
IsBetter(match_keys, best) ==
    best.argument = 0 \/ Len(match_keys) < Len(best.keys)

\* The for-loop of ArgumentCollection.match from position i on.
RECURSIVE MatchLoop(_, _, _, _, _)
MatchLoop(self, term, delimiter, i, best) ==
    IF i > Len(self)
    THEN [exc |-> "none", best |-> best]
    ELSE LET m == ArgumentMatch(self[i], term, delimiter)
         IN  IF m.exc = "ValueError"
             THEN MatchLoop(self, term, delimiter, i + 1, best)
             ELSE IF m.exc # "none"
             THEN [exc |-> m.exc, best |-> best]
             ELSE LET better == IF IsBetter(m.keys, best)
                                THEN [argument |-> i, keys |-> m.keys,
                                      implicit_value |-> m.implicit_value]
                                ELSE best
                  IN  IF m.keys = <<>>
                      THEN [exc |-> "none", best |-> better]
                      ELSE MatchLoop(self, term, delimiter, i + 1, better)

\* ArgumentCollection.match that returns the first Argument that matches.
CollectionMatchFirst(self, term, delimiter) ==
    LET matching == {i \in 1..Len(self) : ArgumentMatch(self[i], term, delimiter).exc = "none"}
        first == CHOOSE i \in matching : \A j \in matching : i <= j
    IN  IF matching = {}
        THEN [exc |-> "ValueError", argument |-> 0, keys |-> <<>>,
              implicit_value |-> None]
        ELSE [exc |-> "none", argument |-> first,
              keys |-> ArgumentMatch(self[first], term, delimiter).keys,
              implicit_value |-> ArgumentMatch(self[first], term, delimiter).implicit_value]

\* ArgumentCollection.match
CollectionMatch(self, term, delimiter) ==
    LET loop == MatchLoop(self, term, delimiter, 1, NoBest)
    IN  IF loop.exc # "none"
        THEN [exc |-> loop.exc, argument |-> 0, keys |-> <<>>, implicit_value |-> None]
        ELSE IF loop.best.argument = 0
        THEN [exc |-> "ValueError", argument |-> 0, keys |-> <<>>,
              implicit_value |-> None]
        ELSE [exc |-> "none", argument |-> loop.best.argument,
              keys |-> loop.best.keys, implicit_value |-> loop.best.implicit_value]

\* ------------------------------------------------------ tree construction
\* The resolved Parameter of a nested field: the name crosses
\* _PARAMETER_SUBKEY_BLOCKER through _resolve_parameter_name, the values
\* the blocker does not name (group, show) are the parent's; the field
\* name goes through the default name transform, which leaves a lower-case
\* identifier without underscores as it is.
ChildCparam(cparam, field_name) ==
    [name |-> _resolve_parameter_name(<<cparam.name, <<field_name>>>>),
     negative |-> <<>>,
     accepts_keys |-> None,
     converter |-> "convert",
     validator |-> <<>>,
     group |-> cparam.group,
     show |-> cparam.show]

\* The name a root parameter gets when none was configured.
DefaultName(iparam) ==
    IF iparam.kind \in {POSITIONAL_ONLY, VAR_POSITIONAL}
    THEN <<Str_ARGS>>
    ELSE IF iparam.kind = VAR_KEYWORD
    THEN <<Str_KW>>
    ELSE <<(<<"-", "-">> \o iparam.name)>>

\* The hint of the root Argument of a parameter annotated with hint.
RootHint(iparam, hint) ==
    IF iparam.kind = VAR_KEYWORD THEN "dict[str,int]"
    ELSE IF iparam.kind = VAR_POSITIONAL THEN "tuple[int,...]"
    ELSE hint

\* ArgumentCollection._from_type for a root parameter whose Argument lands
\* at position base of the collection: the Argument, then one child per
\* field of a record hint (the fields of the model's records are leaves).
_from_type(iparam, hint, cparam, positional_index, base) ==
    LET root_hint == RootHint(iparam, hint)
        resolved == IF cparam.name = <<>>
                    THEN [cparam EXCEPT !.name = DefaultName(iparam)]
                    ELSE cparam
        post == PostInit(root_hint, resolved.accepts_keys)
        fields == IF post._accepts_keywords THEN post._lookup ELSE <<>>
    IN  <<Argument(iparam, resolved, <<>>, root_hint, positional_index,
                   [j \in 1..Len(fields) |-> base + j])>>
        \o [j \in 1..Len(fields) |->
               Argument(iparam, ChildCparam(resolved, fields[j][1]),
                        <<fields[j][1]>>, fields[j][2], <<>>, <<>>)]

\* The parameters a callable of the model may declare: kind, annotation and
\* the Parameter(name=..., negative=..., accepts_keys=...) attached to it.
Cparams(names, negatives, accepts) ==
    [name : names, negative : negatives, accepts_keys : accepts,
     converter : {"convert"}, validator : {<<>>}, group : {<<>>}, show : {TRUE}]

Declared(kinds, hints, cparams) ==
    [kind : kinds, hint : hints, cparam : cparams]

ParameterDeclarations ==
    Declared({POSITIONAL_OR_KEYWORD}, {"int", "dict[str,int]"},
             Cparams({<<>>, <<Str_f, Str_f_b>>}, {<<>>}, {None}))
    \cup Declared({POSITIONAL_OR_KEYWORD}, {"dict[str,int]"},
             Cparams({<<Str_f>>}, {<<>>}, {None}))
    \cup Declared({POSITIONAL_OR_KEYWORD}, {"bool"},
             Cparams({<<Str_f>>}, {<<>>, <<Str_no_f>>, <<Str_f_b>>}, {None}))
    \cup Declared({POSITIONAL_OR_KEYWORD}, {"bool"},
             Cparams({<<Str_f, Str_f_b>>}, {<<>>}, {None}))
    \cup Declared({POSITIONAL_ONLY, KEYWORD_ONLY, VAR_POSITIONAL, VAR_KEYWORD},
             {"int"}, Cparams({<<>>}, {<<>>}, {None}))
    \cup Declared({POSITIONAL_OR_KEYWORD}, {"Record"},
             Cparams({<<>>}, {<<>>}, {None, "False"}))

\* The identifier of the i-th parameter (from 0) of the callable.
ParameterName(i) == IF i = 0 THEN <<"f">> ELSE IF i = 1 THEN <<"b">> ELSE <<"c">>

\* How many parameters the collection was built from so far.
NumRoots(collection) ==
    Cardinality({i \in 1..Len(collection) : collection[i].keys = <<>>})

\* One iteration of the loop of ArgumentCollection.from_callable over the
\* signature: from_iparam(iparam, ..., positional_index=i), appended.
FromCallableStep(d) ==
    /\ NumRoots(arguments) < MaxParams
    /\ LET i == NumRoots(arguments)
           iparam == [name |-> ParameterName(i), kind |-> d.kind]
       IN  arguments' = arguments
               \o _from_type(iparam, d.hint, d.cparam, <<i>>, Len(arguments) + 1)
    /\ outcome' = [op |-> "from_callable"]
    /\ UNCHANGED <<_sort_key_counter, groups>>

\* ------------------------------------------------------- matching, as run
Delimiters == {".", ":"}

Str_fb    == <<"-", "-", "f", "b">>                   \* "--fb"
Str_f_b_c == <<"-", "-", "f", ".", "b", ".", "c">>    \* "--f.b.c"
Str_f_c_b == <<"-", "-", "f", ":", "b">>              \* "--f:b"

StrTerms == {Str_f, Str_f_b, Str_no_f, Str_fb, Str_f_b_c, Str_f_c_b}

Terms == {StrTerm(s) : s \in StrTerms} \cup {IntTerm(n) : n \in 0..MaxParams}

\* The delimiters a term is matched with (an int term takes none).
DelimitersFor(term) == IF term.isint THEN {"."} ELSE Delimiters

\* argument.match(term, delimiter=delimiter) on the i-th Argument.
Match(i, term, delimiter) ==
    /\ i \in 1..Len(arguments)
    /\ outcome' = [op |-> "Argument.match", self |-> i, term |-> term,
                   delimiter |-> delimiter,
                   result |-> ArgumentMatch(arguments[i], term, delimiter)]
    /\ UNCHANGED <<arguments, _sort_key_counter, groups>>

\* collection.match(term, delimiter=delimiter)
MatchCollection(term, delimiter) ==
    /\ outcome' = [op |-> "ArgumentCollection.match", term |-> term,
                   delimiter |-> delimiter,
                   result |-> CollectionMatch(arguments, term, delimiter)]
    /\ UNCHANGED <<arguments, _sort_key_counter, groups>>

InitMatch ==
    /\ arguments = <<>>
    /\ outcome = [op |-> "init"]
    /\ _sort_key_counter = 0
    /\ groups = <<>>

NextMatch ==
    \/ \E d \in ParameterDeclarations : FromCallableStep(d)
    \/ \E i \in 1..(2 * MaxParams), term \in Terms :
           \E delimiter \in DelimitersFor(term) : Match(i, term, delimiter)
    \/ \E term \in Terms :
           \E delimiter \in DelimitersFor(term) : MatchCollection(term, delimiter)

\* Building a collection from a callable and matching terms against it.
SpecMatch == InitMatch /\ [][NextMatch]_vars

\* ------------------------------------------------------ claims: matching
\* What argument.match returns for the i-th Argument on the term and
\* delimiter of the last operation.
MatchOf(i) == ArgumentMatch(arguments[i], outcome.term, outcome.delimiter)

\* The Arguments of the collection whose match succeeds on that term.
Succeeding == {i \in 1..Len(arguments) : MatchOf(i).exc = "none"}

\* C1: whenever at least one Argument of the collection matches the term,
\* ArgumentCollection.match returns an Argument with the fewest leftover
\* keys among the matching ones, the earliest of those in collection order,
\* together with that Argument's leftover keys and implicit value.
C1_FewestLeftoverEarliest ==
    (outcome.op = "ArgumentCollection.match" /\ Succeeding # {}) =>
        LET r == outcome.result
        IN  /\ r.exc = "none"
            /\ r.argument \in Succeeding
            /\ \A j \in Succeeding :
                   /\ Len(MatchOf(r.argument).keys) <= Len(MatchOf(j).keys)
                   /\ Len(MatchOf(j).keys) = Len(MatchOf(r.argument).keys)
                          => r.argument <= j
            /\ r.keys = MatchOf(r.argument).keys
            /\ r.implicit_value = MatchOf(r.argument).implicit_value

\* C1 witness: an Argument matching with zero leftover keys was chosen
\* although an earlier Argument matches the term with leftover keys.
C1_Witness ==
    /\ outcome.op = "ArgumentCollection.match"
    /\ outcome.result.exc = "none"
    /\ outcome.result.keys = <<>>
    /\ \E i \in Succeeding : i < outcome.result.argument /\ MatchOf(i).keys # <<>>

\* The Argument and the str term of the last Argument.match, when it was
\* run on an assignable Argument other than the var-keyword catch-all.
OrdinaryNameMatch ==
    /\ outcome.op = "Argument.match"
    /\ ~outcome.term.isint
    /\ arguments[outcome.self]._assignable
    /\ arguments[outcome.self].iparam.kind # VAR_KEYWORD

\* Is s one of the names of the tuple names?
IsOneOf(s, names) == \E k \in 1..Len(names) : names[k] = s

\* Is s some name of the tuple, then the delimiter, then the key "b"?
IsNameThenKey(s, names, delimiter) ==
    \E k \in 1..Len(names) : s = names[k] \o <<delimiter, "b">>

\* C7: on a non-boolean Argument with no negative names, a term equal to a
\* configured name matches with zero leftover keys and implicit value None,
\* and a term name + delimiter + key matches with that key as the leftover
\* keys if the Argument accepts arbitrary keywords and is a non-match
\* (ValueError) if it does not.
C7_NameAndNameWithKey ==
    (/\ OrdinaryNameMatch
     /\ arguments[outcome.self].hint # "bool"
     /\ get_negatives(arguments[outcome.self].cparam,
                      arguments[outcome.self].hint) = <<>>) =>
        LET self == arguments[outcome.self]
            term == outcome.term.s
        IN  /\ IsOneOf(term, self.cparam.name)
                   => outcome.result = Returned(<<>>, None)
            /\ IsNameThenKey(term, self.cparam.name, outcome.delimiter)
                   => IF accepts_arbitrary_keywords(self)
                      THEN outcome.result = Returned(<<(<<"b">>)>>, None)
                      ELSE outcome.result.exc = "ValueError"

\* C8: on a boolean Argument, a term equal to a positive name matches with
\* zero leftover keys and implicit value True, and a term equal to a
\* negative name matches with zero leftover keys and implicit value False.
C8_BooleanFlag ==
    (OrdinaryNameMatch /\ arguments[outcome.self].hint = "bool") =>
        LET self == arguments[outcome.self]
            term == outcome.term.s
        IN  /\ IsOneOf(term, self.cparam.name)
                   => outcome.result = Returned(<<>>, "True")
            /\ (/\ ~IsOneOf(term, self.cparam.name)
                /\ IsOneOf(term, get_negatives(self.cparam, self.hint)))
                   => outcome.result = Returned(<<>>, "False")

\* C9: a term that equals a configured positive or negative name of the
\* Argument matches with zero leftover keys, whatever names are configured
\* before it: a name that is only a prefix of the term up to the delimiter
\* is passed over when the Argument takes no arbitrary keywords.
C9_ExactNameAlwaysMatches ==
    OrdinaryNameMatch =>
        LET self == arguments[outcome.self]
            term == outcome.term.s
        IN  (\/ IsOneOf(term, self.cparam.name)
             \/ IsOneOf(term, get_negatives(self.cparam, self.hint)))
                => (outcome.result.exc = "none" /\ outcome.result.keys = <<>>)

\* C10: on an int term, the match of an assignable Argument succeeds, with
\* no leftover keys and no implicit value, exactly when the Argument has a
\* positional index, its parameter is neither keyword-only nor var-keyword,
\* and the term is its index, or at least its index for a var-positional
\* parameter; it raises ValueError otherwise.
C10_IndexMatch ==
    (/\ outcome.op = "Argument.match"
     /\ outcome.term.isint
     /\ arguments[outcome.self]._assignable) =>
        LET self == arguments[outcome.self]
            expected ==
                /\ self.index # <<>>
                /\ self.iparam.kind \notin {KEYWORD_ONLY, VAR_KEYWORD}
                /\ IF self.iparam.kind = VAR_POSITIONAL
                   THEN outcome.term.n >= self.index[1]
                   ELSE outcome.term.n = self.index[1]
        IN  IF expected
            THEN outcome.result = Returned(<<>>, None)
            ELSE outcome.result.exc = "ValueError"

\* ------------------------------------------------------------------ Token
\* Token(keys=..., index=..., implicit_value=..., value=...)
Token(keys, index, implicit_value, value) ==
    [keys |-> keys, index |-> index, implicit_value |-> implicit_value,
     value |-> value]

\* The tokens appended in the model: positional-style and keyword-style
\* ones at index 0 and 1, and the flag tokens that carry an implicit value.
Tokens ==
    {Token(keys, index, None, "1") :
         keys \in {<<>>, <<(<<"b">>)>>, <<(<<"b">>), (<<"c">>)>>}, index \in {0, 1}}
    \cup {Token(<<>>, 0, implicit_value, "") : implicit_value \in {"True", "[]"}}

\* cyclopts._convert.token_count(hint): the tokens one element consumes and
\* whether the hint consumes an unbounded run of tokens.
token_count(hint) ==
    CASE hint = "bool" -> [tokens_per_element |-> 0, consume_all |-> FALSE]
      [] hint = "list[bool]" -> [tokens_per_element |-> 0, consume_all |-> TRUE]
      [] hint = "tuple[int,...]" -> [tokens_per_element |-> 1, consume_all |-> TRUE]
      [] OTHER -> [tokens_per_element |-> 1, consume_all |-> FALSE]

\* Argument.type_hint_for_key: self._lookup[key], else self._default, else
\* the KeyError.
type_hint_for_key(self, key) ==
    IF \E j \in 1..Len(self._lookup) : self._lookup[j][1] = key
    THEN LET j == CHOOSE k \in 1..Len(self._lookup) : self._lookup[k][1] = key
         IN  [exc |-> "none", hint |-> self._lookup[j][2]]
    ELSE IF self._default = None
    THEN [exc |-> "KeyError", hint |-> None]
    ELSE [exc |-> "none", hint |-> self._default]

\* Argument.token_count(keys)
ArgumentTokenCount(self, keys) ==
    LET found == IF Len(keys) > 1 THEN [exc |-> "none", hint |-> self._default]
                 ELSE IF Len(keys) = 1 THEN type_hint_for_key(self, keys[1])
                 ELSE [exc |-> "none", hint |-> self.hint]
        counted == token_count(found.hint)
    IN  IF found.exc # "none"
        THEN [exc |-> found.exc, tokens_per_element |-> 0, consume_all |-> FALSE]
        ELSE [exc |-> "none",
              tokens_per_element |-> counted.tokens_per_element,
              consume_all |-> counted.consume_all
                                  \/ self.iparam.kind = VAR_POSITIONAL]

\* HoldsSame looking at the last token only.
HoldsSameAsLast(self, token) ==
    /\ self.tokens # <<>>
    /\ <<self.tokens[Len(self.tokens)].keys, self.tokens[Len(self.tokens)].index>>
           = <<token.keys, token.index>>

\* any((x.keys, x.index) == (token.keys, token.index) for x in self.tokens)
HoldsSame(self, token) ==
    \E k \in 1..Len(self.tokens) :
        <<self.tokens[k].keys, self.tokens[k].index>> = <<token.keys, token.index>>

\* IsMixed that only looks at a keyword-style token.
IsMixedKeywordOnly(self, token) ==
    /\ self.tokens # <<>>
    /\ token.keys # <<>>
    /\ ~(\E k \in 1..Len(self.tokens) : self.tokens[k].keys # <<>>)

\* self.tokens and (bool(token.keys) ^ any(x.keys for x in self.tokens))
IsMixed(self, token) ==
    /\ self.tokens # <<>>
    /\ (token.keys # <<>>)
           # (\E k \in 1..Len(self.tokens) : self.tokens[k].keys # <<>>)

\* Argument.append: the exception it raises, if any, and self.tokens after.
ArgumentAppend(self, token) ==
    LET count == ArgumentTokenCount(self, token.keys)
    IN  IF ~self._assignable
        THEN [exc |-> "ValueError", tokens |-> self.tokens]
        ELSE IF HoldsSame(self, token) /\ count.exc # "none"
        THEN [exc |-> count.exc, tokens |-> self.tokens]
        ELSE IF HoldsSame(self, token) /\ ~count.consume_all
        THEN [exc |-> "RepeatArgumentError", tokens |-> self.tokens]
        ELSE IF IsMixed(self, token)
        THEN [exc |-> "MixedArgumentError", tokens |-> self.tokens]
        ELSE [exc |-> "none", tokens |-> Append(self.tokens, token)]

\* argument.append(token) on the i-th Argument.
AppendToken(i, token) ==
    /\ i \in 1..Len(arguments)
    /\ Len(arguments[i].tokens) < MaxTokens
    /\ LET r == ArgumentAppend(arguments[i], token)
       IN  /\ arguments' = [arguments EXCEPT ![i].tokens = r.tokens]
           /\ outcome' = [op |-> "Argument.append", self |-> i, token |-> token,
                          exc |-> r.exc]
    /\ UNCHANGED <<_sort_key_counter, groups>>

\* The declarations of the one parameter tokens are appended to: the ones
\* above and a negatable list flag.
AppendDeclarations ==
    ParameterDeclarations
    \cup Declared({POSITIONAL_OR_KEYWORD}, {"list[bool]"},
             Cparams({<<Str_f>>}, {<<Str_no_f>>}, {None}))

\* The collection of a callable with one parameter.
InitAppend ==
    /\ \E d \in AppendDeclarations :
           arguments = _from_type([name |-> ParameterName(0), kind |-> d.kind],
                                  d.hint, d.cparam, <<0>>, 1)
    /\ outcome = [op |-> "init"]
    /\ _sort_key_counter = 0
    /\ groups = <<>>

NextAppend ==
    \E i \in 1..2, token \in Tokens : AppendToken(i, token)

\* Appending tokens to the Arguments of a one-parameter callable.
SpecAppend == InitAppend /\ [][NextAppend]_vars

\* ------------------------------------------------ claims: Argument.append
\* All tokens key-less, or all tokens keyed.
OneStyle(tokens) ==
    \/ \A k \in 1..Len(tokens) : tokens[k].keys = <<>>
    \/ \A k \in 1..Len(tokens) : tokens[k].keys # <<>>

\* C2: appending a Token whose (keys, index) equals that of a Token the
\* Argument holds, when token_count reports for the Token's keys that the
\* Argument does not consume all tokens, raises RepeatArgumentError and
\* leaves the Argument's tokens as they were.
C2_RepeatRejected ==
    [][outcome'.op = "Argument.append" =>
          LET self == arguments[outcome'.self]
              token == outcome'.token
              count == ArgumentTokenCount(self, token.keys)
          IN  (/\ \E k \in 1..Len(self.tokens) :
                      /\ self.tokens[k].keys = token.keys
                      /\ self.tokens[k].index = token.index
               /\ count.exc = "none"
               /\ ~count.consume_all)
                  => (/\ outcome'.exc = "RepeatArgumentError"
                      /\ arguments' = arguments)]_vars

\* C2 witness: an append was rejected as a repeat on an Argument holding
\* a token.
C2_Witness ==
    /\ outcome.op = "Argument.append"
    /\ outcome.exc = "RepeatArgumentError"
    /\ arguments[outcome.self].tokens # <<>>

\* C3: the tokens of every Argument are always all key-less or all keyed,
\* and an append of a keyed token to key-less tokens, or of a key-less one
\* to keyed tokens, raises MixedArgumentError and leaves the tokens as they
\* were.
C3_NeverMixed ==
    /\ [](\A i \in 1..Len(arguments) : OneStyle(arguments[i].tokens))
    /\ [][outcome'.op = "Argument.append" =>
             LET self == arguments[outcome'.self]
                 token == outcome'.token
             IN  (/\ self.tokens # <<>>
                  /\ ~OneStyle(Append(self.tokens, token)))
                     => (/\ outcome'.exc = "MixedArgumentError"
                         /\ arguments' = arguments)]_vars

\* C3 witness: an append was rejected as mixing the two styles.
C3_Witness ==
    /\ outcome.op = "Argument.append"
    /\ outcome.exc = "MixedArgumentError"
    /\ arguments[outcome.self].tokens # <<>>

\* ------------------------------------------------------------------ Group
\* Sort keys and the tuples sort_groups sorts by are values of four kinds:
\* the NO_USER_SORT_KEY sentinel, an int, a str, a callable (here one that
\* returns the int n for any group) and a tuple of such values.
NO_USER_SORT_KEY == [t |-> "NO_USER_SORT_KEY", n |-> 0, items |-> <<>>]
NoneKey == [t |-> "None", n |-> 0, items |-> <<>>]
IntKey(n) == [t |-> "int", n |-> n, items |-> <<>>]
StrKey(s) == [t |-> "str", n |-> 0, items |-> s]
CallableKey(n) == [t |-> "callable", n |-> n, items |-> <<>>]
TupleKey(items) == [t |-> "tuple", n |-> 0, items |-> items]

\* Group(name, sort_key=sort_key): the converter of _sort_key turns None
\* into NO_USER_SORT_KEY.
Group(name, sort_key) ==
    [name |-> name,
     _sort_key |-> IF sort_key = NoneKey THEN NO_USER_SORT_KEY ELSE sort_key]

\* cyclopts.utils.is_iterable, on the values of the model
is_iterable(x) == x.t = "tuple"

\* Group.create_ordered(name, sort_key=sort_key), given count, the value
\* drawn from _sort_key_counter.
create_ordered(name, sort_key, count) ==
    Group(name,
          IF sort_key = NoneKey THEN TupleKey(<<NO_USER_SORT_KEY, IntKey(count)>>)
          ELSE IF is_iterable(sort_key)
          THEN TupleKey(<<TupleKey(sort_key.items), IntKey(count)>>)
          ELSE TupleKey(<<sort_key, IntKey(count)>>))

\* resolve_callables(t, group): a callable is called, the callables in a
\* tuple are called, nested tuples are resolved the same way (the tuples of
\* the model nest once).
ResolveElement(element) ==
    IF element.t = "callable" THEN IntKey(element.n) ELSE element

ResolveInner(t) ==
    IF t.t = "tuple"
    THEN TupleKey([k \in 1..Len(t.items) |-> ResolveElement(t.items[k])])
    ELSE ResolveElement(t)

resolve_callables(t) ==
    IF t.t = "NO_USER_SORT_KEY" THEN t
    ELSE IF t.t = "callable" THEN IntKey(t.n)
    ELSE TupleKey([k \in 1..Len(t.items) |-> ResolveInner(t.items[k])])

\* ord(c) for the characters of group names.
Ord(c) ==
    CASE c = "A" -> 65 [] c = "Z" -> 90 [] c = "b" -> 98 [] c = "c" -> 99
      [] OTHER -> 0

\* Python's comparison of two values: "lt", "eq", "gt", or "TypeError"
\* when the values are unequal and define no order between them.  Tuples
\* and strs compare at their first unequal element.
RECURSIVE Compare(_, _)
Compare(a, b) ==
    IF a = b THEN "eq"
    ELSE IF a.t = "int" /\ b.t = "int"
    THEN IF a.n < b.n THEN "lt" ELSE "gt"
    ELSE IF a.t = "str" /\ b.t = "str"
    THEN LET differ == {k \in 1..Len(a.items) :
                            k <= Len(b.items) /\ a.items[k] # b.items[k]}
         IN  IF differ = {}
             THEN IF Len(a.items) < Len(b.items) THEN "lt" ELSE "gt"
             ELSE LET k == CHOOSE x \in differ : \A y \in differ : x <= y
                  IN  IF Ord(a.items[k]) < Ord(b.items[k]) THEN "lt" ELSE "gt"
    ELSE IF a.t = "tuple" /\ b.t = "tuple"
    THEN LET differ == {k \in 1..Len(a.items) :
                            k <= Len(b.items) /\ a.items[k] # b.items[k]}
         IN  IF differ = {}
             THEN IF Len(a.items) < Len(b.items) THEN "lt" ELSE "gt"
             ELSE LET k == CHOOSE x \in differ : \A y \in differ : x <= y
                  IN  Compare(a.items[k], b.items[k])
    ELSE "TypeError"

\* An entry of one of the three lists of sort_groups: the tuple it sorts
\* by, its (group, attribute) pair and the input position of the pair.
\* Two entries with equal tuples are compared by their pairs: groups define
\* equality and no order, so equal groups are compared by their attributes
\* (ints here) and unequal ones raise.
CompareEntries(e1, e2) ==
    LET c == Compare(e1.key, e2.key)
    IN  IF c # "eq" THEN c
        ELSE IF e1.group = e2.group
        THEN Compare(IntKey(e1.attribute), IntKey(e2.attribute))
        ELSE "TypeError"

\* list.sort(): the entries in ascending order, an entry staying behind the
\* entries it does not precede; a TypeError of a comparison ends the sort.
RECURSIVE InsertEntry(_, _)
InsertEntry(sorted, e) ==
    IF sorted = <<>> THEN <<e>>
    ELSE IF CompareEntries(e, sorted[Len(sorted)]) = "lt"
    THEN Append(InsertEntry(SubSeq(sorted, 1, Len(sorted) - 1), e),
                sorted[Len(sorted)])
    ELSE Append(sorted, e)

RECURSIVE SortEntries(_)
SortEntries(entries) ==
    IF entries = <<>> THEN <<>>
    ELSE InsertEntry(SortEntries(SubSeq(entries, 1, Len(entries) - 1)),
                     entries[Len(entries)])

SortRaises(entries) ==
    \E i, j \in 1..Len(entries) :
        i # j /\ CompareEntries(entries[i], entries[j]) = "TypeError"

\* callable(x): a function, or a class such as the NO_USER_SORT_KEY sentinel
IsCallable(x) == x.t \in {"callable", "NO_USER_SORT_KEY"}

\* The sort key sort_groups works with: a callable or iterable _sort_key
\* goes through resolve_callables.
ResolvedSortKey(group) ==
    IF IsCallable(group._sort_key) \/ is_iterable(group._sort_key)
    THEN resolve_callables(group._sort_key)
    ELSE group._sort_key

\* The list sort_groups puts a group in: 1 for sort_key_panels, 2 for
\* ordered_no_user_sort_key_panels, 3 for no_user_sort_key_panels.
Panel(sort_key) ==
    IF sort_key \in {NO_USER_SORT_KEY, NoneKey} THEN 3
    ELSE IF is_iterable(sort_key) /\ sort_key.items[1] \in {NO_USER_SORT_KEY, NoneKey}
    THEN 2
    ELSE 1

\* OrderedPanelKey with the name put first.
OrderedPanelKeyNameFirst(sort_key, name) ==
    TupleKey(<<StrKey(name)>> \o Tail(sort_key.items))

\* sort_key[1:] + (group.name,)
OrderedPanelKey(sort_key, name) ==
    TupleKey(Tail(sort_key.items) \o <<StrKey(name)>>)

\* The tuple a group is sorted by within its list.
PanelKey(group) ==
    LET sort_key == ResolvedSortKey(group)
    IN  CASE Panel(sort_key) = 3 -> TupleKey(<<StrKey(group.name)>>)
          [] Panel(sort_key) = 2 -> OrderedPanelKey(sort_key, group.name)
          [] OTHER -> TupleKey(<<sort_key, StrKey(group.name)>>)

\* The entries of one of the three lists, in input order.
RECURSIVE PanelEntries(_, _, _, _)
PanelEntries(input, attributes, panel, i) ==
    IF i > Len(input) THEN <<>>
    ELSE (IF Panel(ResolvedSortKey(input[i])) = panel
          THEN <<[key |-> PanelKey(input[i]), group |-> input[i],
                  attribute |-> attributes[i], position |-> i]>>
          ELSE <<>>) \o PanelEntries(input, attributes, panel, i + 1)

\* Combined with the first two lists swapped.
CombinedOrderedFirst(sort_key_panels, ordered_panels, no_user_panels) ==
    ordered_panels \o sort_key_panels \o no_user_panels

\* combined = sort_key_panels + ordered_no_user_sort_key_panels
\*            + no_user_sort_key_panels
Combined(sort_key_panels, ordered_panels, no_user_panels) ==
    sort_key_panels \o ordered_panels \o no_user_panels

\* sort_groups that leaves the groups with no sort key out of combined.
SortGroupsKeyedOnly(input, attributes) ==
    LET panels == [p \in 1..3 |-> PanelEntries(input, attributes, p, 1)]
        combined == SortEntries(panels[1]) \o SortEntries(panels[2])
    IN  IF input = <<>>
        THEN [exc |-> "none", groups |-> input, attributes |-> attributes]
        ELSE IF \E p \in 1..3 : SortRaises(panels[p])
        THEN [exc |-> "TypeError", groups |-> <<>>, attributes |-> <<>>]
        ELSE [exc |-> "none",
              groups |-> [k \in 1..Len(combined) |-> input[combined[k].position]],
              attributes |-> [k \in 1..Len(combined) |->
                                  attributes[combined[k].position]]]

\* sort_groups(input, attributes): the exception, or the two output lists.
sort_groups(input, attributes) ==
    LET panels == [p \in 1..3 |-> PanelEntries(input, attributes, p, 1)]
        combined == Combined(SortEntries(panels[1]), SortEntries(panels[2]),
                             SortEntries(panels[3]))
    IN  IF input = <<>>
        THEN [exc |-> "none", groups |-> input, attributes |-> attributes]
        ELSE IF \E p \in 1..3 : SortRaises(panels[p])
        THEN [exc |-> "TypeError", groups |-> <<>>, attributes |-> <<>>]
        ELSE [exc |-> "none",
              groups |-> [k \in 1..Len(combined) |-> input[combined[k].position]],
              attributes |-> [k \in 1..Len(combined) |->
                                  attributes[combined[k].position]]]

\* The names and the sort keys groups are created with.
GroupNames == {<<"A">>, <<"Z">>}
\* The (name, sort_key) pairs groups are created with.
PlainGroups ==
    (GroupNames \X {NoneKey, IntKey(1)}) \cup {<<(<<"A">>), CallableKey(2)>>}
OrderedGroups == (GroupNames \X {NoneKey}) \cup {<<(<<"A">>), IntKey(1)>>}

\* Group(name, sort_key=sort_key)
CreateGroup(name, sort_key) ==
    /\ Len(groups) < MaxGroups
    /\ groups' = Append(groups, Group(name, sort_key))
    /\ outcome' = [op |-> "Group"]
    /\ UNCHANGED <<arguments, _sort_key_counter>>

\* Group.create_ordered(name, sort_key=sort_key)
CreateOrdered(name, sort_key) ==
    /\ Len(groups) < MaxGroups
    /\ _sort_key_counter' = _sort_key_counter + 1
    /\ groups' = Append(groups, create_ordered(name, sort_key, _sort_key_counter))
    /\ outcome' = [op |-> "Group.create_ordered"]
    /\ UNCHANGED arguments

\* The orders the groups created so far can be passed in.
Orders(n) == {o \in [1..n -> 1..n] : \A i, j \in 1..n : o[i] = o[j] => i = j}

\* sort_groups on all groups created so far, passed in the given order,
\* the i-th one with the attribute i.
SortGroups(order) ==
    /\ LET input == [k \in 1..Len(groups) |-> groups[order[k]]]
           attributes == [k \in 1..Len(groups) |-> k]
       IN  outcome' = [op |-> "sort_groups", input |-> input,
                       attributes |-> attributes,
                       result |-> sort_groups(input, attributes)]
    /\ UNCHANGED <<arguments, _sort_key_counter, groups>>

InitGroups ==
    /\ arguments = <<>>
    /\ outcome = [op |-> "init"]
    /\ _sort_key_counter = 0
    /\ groups = <<>>

NextGroups ==
    \/ \E g \in PlainGroups : CreateGroup(g[1], g[2])
    \/ \E g \in OrderedGroups : CreateOrdered(g[1], g[2])
    \/ \E order \in Orders(Len(groups)) : SortGroups(order)

\* Creating groups and sorting them for the help page.
SpecGroups == InitGroups /\ [][NextGroups]_vars

\* ------------------------------------------------------- claims: sorting
\* A group made by create_ordered without a sort key.
DeclarationOrdered(group) ==
    /\ group._sort_key.t = "tuple"
    /\ group._sort_key.items[1] = NO_USER_SORT_KEY

\* A group with a literal sort key of its own: an int, or the int that
\* create_ordered paired with the counter.
LiteralKeyed(group) ==
    \/ group._sort_key.t = "int"
    \/ group._sort_key.t = "tuple" /\ group._sort_key.items[1].t = "int"

\* A group with no sort key.
Unkeyed(group) == group._sort_key = NO_USER_SORT_KEY

\* The position of a group among the groups created, in creation order.
CreatedAt(group) == CHOOSE i \in 1..Len(groups) : groups[i] = group

\* sort_groups was the last operation and returned its two lists.
Sorted == outcome.op = "sort_groups" /\ outcome.result.exc = "none"

\* C5: in the list sort_groups returns, the groups made by create_ordered
\* without a sort key stand in the order they were created in, whatever
\* their names and the order they were passed in, after every group with a
\* literal sort key and before every group with no sort key.
C5_CreationOrderKept ==
    Sorted =>
        LET out == outcome.result.groups
        IN  /\ \A i \in 1..Len(outcome.input) :
                   DeclarationOrdered(outcome.input[i])
                       => \E p \in 1..Len(out) : out[p] = outcome.input[i]
            /\ \A p, q \in 1..Len(out) :
                   DeclarationOrdered(out[p]) =>
                       /\ (DeclarationOrdered(out[q])
                              /\ CreatedAt(out[p]) < CreatedAt(out[q])) => p < q
                       /\ LiteralKeyed(out[q]) => q < p
                       /\ Unkeyed(out[q]) => p < q

\* C5 witness: two groups made by create_ordered without a sort key, the
\* first named "Z" and the second "A", were passed in the reverse of their
\* creation order together with a group of another kind, and sorted.
C5_Witness ==
    /\ Sorted
    /\ Len(groups) = 3
    /\ \E i, j \in 1..3 :
           /\ i < j
           /\ DeclarationOrdered(groups[i]) /\ groups[i].name = <<"Z">>
           /\ DeclarationOrdered(groups[j]) /\ groups[j].name = <<"A">>
           /\ \E p, q \in 1..3 :
                  /\ p < q
                  /\ outcome.input[p] = groups[j]
                  /\ outcome.input[q] = groups[i]
    /\ \E k \in 1..3 : LiteralKeyed(groups[k]) \/ Unkeyed(groups[k])

\* The tier of a group: 1 with a concrete sort key, 2 with a sort key led
\* by the sentinel, 3 with no sort key.
Tier(group) ==
    IF Unkeyed(group) THEN 3 ELSE IF DeclarationOrdered(group) THEN 2 ELSE 1

\* Is g1 at or before g2 by the tuple their tier is sorted by?
TierAscending(g1, g2) ==
    LET name1 == StrKey(g1.name)
        name2 == StrKey(g2.name)
        key1 == ResolvedSortKey(g1)
        key2 == ResolvedSortKey(g2)
    IN  CASE Tier(g1) = 1 ->
                 Compare(TupleKey(<<key1, name1>>), TupleKey(<<key2, name2>>))
                     \in {"lt", "eq"}
          [] Tier(g1) = 2 ->
                 Compare(TupleKey(Tail(key1.items) \o <<name1>>),
                         TupleKey(Tail(key2.items) \o <<name2>>)) \in {"lt", "eq"}
          [] OTHER -> Compare(name1, name2) \in {"lt", "eq"}

\* C6: the list sort_groups returns holds the groups passed in, those with
\* a concrete sort key first, ascending by (key, name), then those with a
\* key led by the sentinel, ascending by (remaining key, name), then those
\* with no sort key, ascending by name; "Zeta" and "Alpha" with no sort key
\* come out as "Alpha", "Zeta".
C6_ThreeTiers ==
    Sorted =>
        LET out == outcome.result.groups
        IN  /\ Len(out) = Len(outcome.input)
            /\ \A i \in 1..Len(outcome.input) :
                   \E p \in 1..Len(out) : out[p] = outcome.input[i]
            /\ \A p \in 1..(Len(out) - 1) :
                   /\ Tier(out[p]) <= Tier(out[p + 1])
                   /\ Tier(out[p]) = Tier(out[p + 1])
                          => TierAscending(out[p], out[p + 1])
            /\ outcome.input = <<Group(<<"Z">>, NoneKey), Group(<<"A">>, NoneKey)>>
                   => out = <<Group(<<"A">>, NoneKey), Group(<<"Z">>, NoneKey)>>

\* C6 witness: a group of each tier, passed with the tiers in reverse
\* order, was sorted.
C6_Witness ==
    /\ Sorted
    /\ Len(outcome.input) = 3
    /\ Tier(outcome.input[1]) = 3
    /\ Tier(outcome.input[2]) = 2
    /\ Tier(outcome.input[3]) = 1

\* ------------------------------------------------------------- conversion
\* A call made during a conversion: the converter "by" applied for the
\* Argument at position self, the constructor of the hint "by" called for
\* it, or its validator "by" called; also Argument._convert entered for it
\* with the converter "by", and Argument.validate entered for it.
Call(fn, self, by) == [fn |-> fn, self |-> self, by |-> by]

\* The calls that may raise: converters, record constructors and
\* validators are code from outside this module.  One pass ends at the
\* first exception, so at most one call of a pass raises.
Faults == [fn : {"none", "converter", "constructor", "validator"}, self : 1..3]

Faulty(fault, fn, i) == fault = [fn |-> fn, self |-> i]

\* Argument._marked that reads the mark of the pass only.
MarkedInPass(self) == self._marked_converted

\* Argument._marked
_marked(self) == self._marked_converted \/ self._mark_converted_override

\* Argument.value = val that leaves the marks as they are.
SetValueNoMark(self, val) == [self EXCEPT !._value = val]

\* Argument.value = val
SetValue(self, val) ==
    [self EXCEPT !._mark_converted_override = @ \/ _marked(self),
                 !._marked_converted = TRUE,
                 !._value = val]

\* Argument.n_tree_tokens of the Argument at position i.
RECURSIVE n_tree_tokens(_, _), ChildTreeTokens(_, _)
ChildTreeTokens(collection, children) ==
    IF children = <<>> THEN 0
    ELSE n_tree_tokens(collection, Head(children))
             + ChildTreeTokens(collection, Tail(children))

n_tree_tokens(collection, i) ==
    Len(collection[i].tokens) + ChildTreeTokens(collection, collection[i].children)

\* n calls of the converter for the Argument at position i, the first of
\* which raises when it is the faulty call.
ConverterCalls(n, i, converter, fault) ==
    IF Faulty(fault, "converter", i)
    THEN [calls |-> <<Call("converter", i, converter)>>, exc |-> "CoercionError",
          out |-> UNSET]
    ELSE [calls |-> [k \in 1..n |-> Call("converter", i, converter)],
          exc |-> "none", out |-> "converted"]


\* keys is a proper prefix of other.
IsProperPrefix(keys, other) ==
    Len(keys) < Len(other) /\ SubSeq(other, 1, Len(keys)) = keys

\* The keys of the dict that Argument._convert nests the keyword tokens in.
KeywordKeys(self) ==
    {self.tokens[k].keys[1] :
         k \in {j \in 1..Len(self.tokens) : self.tokens[j].keys # <<>>}}

\* Argument._convert of an assignable Argument: the loop over the tokens
\* ends at the first token that carries an implicit value, that cannot be
\* nested into the dict built so far (a list stands where a dict is needed,
\* or a dict where a list is), or that makes the accumulators mixed.
ConvertAssignable(self, i, converter, fault) ==
    LET tokens == self.tokens
        Clash(k) == \E a \in 1..(k - 1) :
                        /\ tokens[a].keys # <<>>
                        /\ \/ IsProperPrefix(tokens[a].keys, tokens[k].keys)
                           \/ IsProperPrefix(tokens[k].keys, tokens[a].keys)
        Mixed(k) == \E a, b \in 1..k : tokens[a].keys = <<>> /\ tokens[b].keys # <<>>
        stops == {k \in 1..Len(tokens) :
                      tokens[k].implicit_value # None \/ Clash(k) \/ Mixed(k)}
        first == CHOOSE k \in stops : \A j \in stops : k <= j
        Raise(exc) == [calls |-> <<>>, exc |-> exc, out |-> UNSET]
    IN  IF stops # {}
        THEN IF tokens[first].implicit_value # None
             THEN IF Len(tokens) = 1
                  THEN [calls |-> <<>>, exc |-> "none",
                        out |-> tokens[first].implicit_value]
                  ELSE Raise("AssertionError")
             ELSE IF Clash(first) THEN Raise("AttributeError")
             ELSE Raise("MixedArgumentError")
        ELSE IF tokens = <<>>
        THEN [calls |-> <<>>, exc |-> "none", out |-> UNSET]
        ELSE IF tokens[1].keys = <<>>
        THEN ConverterCalls(IF self.iparam.kind = VAR_POSITIONAL
                            THEN Len(tokens) ELSE 1, i, converter, fault)
        ELSE ConverterCalls(IF self.iparam.kind = VAR_KEYWORD /\ self.keys = <<>>
                            THEN Cardinality(KeywordKeys(self)) ELSE 1,
                            i, converter, fault)

\* is_pydantic(hint): the records of the model are dataclasses.
is_pydantic(hint) == hint = "Model"

\* How many values Argument.validate passes to each validator, or the
\* exception that iterating over the converted value raises: an implicit
\* value is a bool or an empty list, which has no values() and, the bool,
\* no elements to iterate over.
ValidatedValues(self, value) ==
    IF self.keys = <<>> /\ self.iparam.kind = VAR_KEYWORD
    THEN IF value = "converted"
         THEN [exc |-> "none", n |-> Cardinality(KeywordKeys(self))]
         ELSE [exc |-> "AttributeError", n |-> 0]
    ELSE IF self.iparam.kind = VAR_POSITIONAL
    THEN IF value = "converted" THEN [exc |-> "none", n |-> Len(self.tokens)]
         ELSE IF value = "[]" THEN [exc |-> "none", n |-> 0]
         ELSE [exc |-> "TypeError", n |-> 0]
    ELSE [exc |-> "none", n |-> 1]

\* _validate_typed_dict(typed_dict, data) for the data of the keys given:
\* the exception it raises.  The fields of the model's TypedDict are no
\* TypedDicts, so the check does not descend.
_validate_typed_dict(typed_dict, data_keys) ==
    LET annotations == {TypedDictFields(typed_dict)[j][1] :
                            j \in 1..Len(TypedDictFields(typed_dict))}
    IN  IF data_keys \ annotations # {} THEN "CoercionError"
        ELSE IF RequiredKeys(typed_dict) \ data_keys # {} THEN "ValueError"
        ELSE "none"

\* The keys of the data a record node was constructed from: the last key
\* of each child that has a token in its subtree.
DataKeys(collection, self) ==
    {collection[self.children[j]].keys[Len(collection[self.children[j]].keys)] :
         j \in {k \in 1..Len(self.children) :
                    n_tree_tokens(collection, self.children[k]) > 0}}

\* Argument.validate(value) of the Argument at position i.
validate(st, i, value, fault) ==
    LET self == st.args[i]
        internal == IF self._internal_validator = None THEN "none"
                    ELSE _validate_typed_dict(self.hint, DataKeys(st.args, self))
        validators == self.cparam.validator
        values == ValidatedValues(self, value)
        attached == IF Len(self.tokens) = 1 /\ self.children = <<>>
                    THEN "token" ELSE "argument"
        entered == [st EXCEPT !.calls = Append(@, Call("validate", i, None))]
    IN  IF internal # "none" THEN [entered EXCEPT !.exc = internal, !.at = i]
        ELSE IF validators = <<>> THEN entered
        ELSE IF values.exc = "AttributeError"
        THEN [entered EXCEPT !.exc = "AttributeError"]
        ELSE IF values.exc = "TypeError"
        THEN [entered EXCEPT !.exc = "ValidationError", !.attached = attached, !.at = i]
        ELSE IF values.n = 0 THEN entered
        ELSE IF Faulty(fault, "validator", i)
        THEN [entered EXCEPT !.calls = Append(@, Call("validator", i, validators[1])),
                             !.exc = "ValidationError", !.attached = attached,
                             !.at = i]
        ELSE [entered EXCEPT !.calls = @ \o
                 [k \in 1..(Len(validators) * values.n) |->
                      Call("validator", i, validators[((k - 1) \div values.n) + 1])]]

\* The conversion of a tree of Arguments threads a record st through the
\* calls: the collection, the calls made, the exception raised ("none" when
\* none was), for an exception of Argument.validate the position of the
\* Argument and what a ValidationError is attached to, and the value
\* returned last.
RECURSIVE convert_and_validate(_, _, _, _), ConvertChildren(_, _, _, _, _)

\* The loop of Argument._convert over the children of a record node whose
\* keys are parent_keys.
ConvertChildren(st, parent_keys, children, converter, fault) ==
    IF children = <<>> \/ st.exc # "none" THEN st
    ELSE LET child == Head(children)
         IN  IF Len(st.args[child].keys) # Len(parent_keys) + 1
             THEN [st EXCEPT !.exc = "AssertionError"]
             ELSE ConvertChildren(
                      IF n_tree_tokens(st.args, child) > 0
                      THEN convert_and_validate(st, child, converter, fault)
                      ELSE st,
                      parent_keys, Tail(children), converter, fault)

\* Argument._convert(converter) of the Argument at position i.
_convert(st, i, converter, fault) ==
    LET self == st.args[i]
        own == IF converter = None THEN self.cparam.converter ELSE converter
        entered == [st EXCEPT !.calls = Append(@, Call("_convert", i, own))]
    IN  IF self._assignable
        THEN LET r == ConvertAssignable(self, i, own, fault)
             IN  [entered EXCEPT !.calls = @ \o r.calls, !.exc = r.exc, !.val = r.out]
        ELSE LET passed == IF is_pydantic(self.hint) THEN "identity" ELSE own
                 after == ConvertChildren(entered, self.keys, self.children, passed,
                                          fault)
                 called == [after EXCEPT
                               !.calls = Append(@, Call("constructor", i, self.hint))]
             IN  IF after.exc # "none" THEN after
                 ELSE IF Faulty(fault, "constructor", i)
                 THEN [called EXCEPT !.exc = "TypeError"]
                 ELSE [called EXCEPT !.val = "constructed"]

\* Argument.convert(converter) of the Argument at position i.
convert(st, i, converter, fault) ==
    IF _marked(st.args[i])
    THEN [st EXCEPT !.val = st.args[i]._value]
    ELSE LET r == _convert(st, i, converter, fault)
         IN  IF r.exc # "none" THEN r
             ELSE [r EXCEPT !.args[i] = SetValue(@, r.val)]

\* Argument.convert_and_validate(converter) of the Argument at position i.
convert_and_validate(st, i, converter, fault) ==
    LET r == convert(st, i, converter, fault)
    IN  IF r.exc # "none" \/ r.val = UNSET THEN r
        ELSE [validate(r, i, r.val, fault) EXCEPT !.val = r.val]

\* ArgumentCollection._set_marks(val)
_set_marks(collection, val) ==
    [i \in 1..Len(collection) |-> [collection[i] EXCEPT !._marked_converted = val]]

\* sorted(self, key=lambda x: x.keys): the positions of the Arguments in
\* ascending order of their keys, equal keys in collection order.
SortedByKeys(collection) ==
    LET Key(p) == TupleKey([k \in 1..Len(collection[p].keys) |->
                                StrKey(collection[p].keys[k])])
        Precedes(q, p) == \/ Compare(Key(q), Key(p)) = "lt"
                          \/ Key(q) = Key(p) /\ q < p
        Rank(p) == 1 + Cardinality({q \in 1..Len(collection) : Precedes(q, p)})
    IN  [r \in 1..Len(collection) |->
            CHOOSE p \in 1..Len(collection) : Rank(p) = r]

\* The loop of ArgumentCollection.convert over the sorted Arguments.
RECURSIVE ConvertLoop(_, _, _)
ConvertLoop(st, order, fault) ==
    IF order = <<>> \/ st.exc # "none" THEN st
    ELSE ConvertLoop(IF _marked(st.args[Head(order)]) THEN st
                     ELSE convert_and_validate(st, Head(order), None, fault),
                     Tail(order), fault)

\* ArgumentCollection.convert()
ConvertCollection(fault) ==
    /\ LET st == ConvertLoop([args |-> _set_marks(arguments, FALSE),
                              calls |-> <<>>, exc |-> "none",
                              attached |-> None, at |-> 0, val |-> UNSET],
                             SortedByKeys(arguments), fault)
       IN  /\ arguments' = st.args
           /\ outcome' = [op |-> "ArgumentCollection.convert", exc |-> st.exc,
                          calls |-> st.calls, attached |-> st.attached,
                          at |-> st.at]
    /\ UNCHANGED <<_sort_key_counter, groups>>

\* The parameters converted in the model: a leaf of each shape and a record,
\* with the default converter and no validator or with their own.
ConvertDeclarations ==
    LET plain ==
            Declared({POSITIONAL_OR_KEYWORD}, {"int", "bool", "list[bool]", "dict[str,int]"},
                     Cparams({<<Str_f>>}, {<<>>}, {None}))
            \cup Declared({VAR_POSITIONAL, VAR_KEYWORD}, {"int"},
                          Cparams({<<>>}, {<<>>}, {None}))
            \cup Declared({POSITIONAL_OR_KEYWORD}, {"Record"},
                          Cparams({<<>>}, {<<>>}, {None, "False"}))
    IN  plain \cup {[d EXCEPT !.cparam.converter = "custom",
                              !.cparam.validator = <<"validator">>] : d \in plain}

\* The collection of a callable with one of these parameters.
InitConvert ==
    /\ \E d \in ConvertDeclarations :
           arguments = _from_type([name |-> ParameterName(0), kind |-> d.kind],
                                  d.hint, d.cparam, <<0>>, 1)
    /\ outcome = [op |-> "init"]
    /\ _sort_key_counter = 0
    /\ groups = <<>>

NextConvert ==
    \/ \E i \in 1..2, token \in Tokens : AppendToken(i, token)
    \/ \E fault \in Faults : ConvertCollection(fault)

\* Appending tokens to the Arguments of a one-parameter callable and
\* converting the collection.
SpecConvert == InitConvert /\ [][NextConvert]_vars

\* The TypedDict parameter converted in the model, with the default
\* converter and no validator or with its own.
TypedDictDeclarations ==
    LET plain == Declared({POSITIONAL_OR_KEYWORD}, TypedDictHints,
                          Cparams({<<>>}, {<<>>}, {None}))
    IN  plain \cup {[d EXCEPT !.cparam.converter = "custom",
                              !.cparam.validator = <<"validator">>] : d \in plain}

\* The tokens appended to its fields: a positional-style one and a flag's.
FieldTokens == {Token(<<>>, 0, None, "1"), Token(<<>>, 0, "True", "")}

InitTypedDict ==
    /\ \E d \in TypedDictDeclarations :
           arguments = _from_type([name |-> ParameterName(0), kind |-> d.kind],
                                  d.hint, d.cparam, <<0>>, 1)
    /\ outcome = [op |-> "init"]
    /\ _sort_key_counter = 0
    /\ groups = <<>>

NextTypedDict ==
    \/ \E i \in 1..3, token \in FieldTokens : AppendToken(i, token)
    \/ \E fault \in Faults : ConvertCollection(fault)

\* Appending tokens to the Arguments of a callable with one TypedDict
\* parameter and converting the collection.
SpecTypedDict == InitTypedDict /\ [][NextTypedDict]_vars

\* ----------------------------------------------------- claims: conversion
\* The last operation was a pass of ArgumentCollection.convert.
Converted == outcome.op = "ArgumentCollection.convert"

\* C4: after a pass of ArgumentCollection.convert, an Argument that had no
\* token anywhere in its subtree, a record node included, holds UNSET, and
\* the pass called no converter and no constructor for it.
C4_NoTokensUnset ==
    Converted =>
        \A i \in 1..Len(arguments) :
            n_tree_tokens(arguments, i) = 0 =>
                /\ arguments[i]._value = UNSET
                /\ \A k \in 1..Len(outcome.calls) :
                       outcome.calls[k].self = i
                           => outcome.calls[k].fn \notin {"converter", "constructor"}

\* ------------------------------------------------ resolving names, run
Str_foo     == <<"-", "-", "f", "o", "o">>        \* "--foo"
Str_foo_dot == Str_foo \o <<".">>                 \* "--foo."
Str_foo_bar == Str_foo_dot \o <<"b", "a", "r">>   \* "--foo.bar"
Str_bar     == <<"b", "a", "r">>                  \* "bar"
Str_b       == <<"-", "-", "b">>                  \* "--b"
Str_FOO     == <<"F", "O", "O">>                  \* "FOO"
Str_star    == <<"*">>                            \* "*"

\* The names of a parent Parameter and of a nested field's Parameter.
ParentNames == {Str_foo, Str_foo_dot, Str_foo \o Str_star, Str_star, Str_FOO}
ChildNames == {Str_bar, Str_b}

\* The tuples of at most MaxNames names from a set of names.
NameTuples(names) == UNION {[1..n -> names] : n \in 0..MaxNames}

\* The argument lists of _resolve_parameter_name: none, one tuple, a parent
\* with a child, and those with a grandchild.
ResolveInputs ==
    {<<>>}
    \cup {<<a>> : a \in NameTuples(ParentNames)}
    \cup {<<a1, a2>> : a1 \in NameTuples(ParentNames), a2 \in NameTuples(ChildNames)}
    \cup {<<a1, a2, <<Str_bar>>>> :
              a1 \in NameTuples(ParentNames), a2 \in NameTuples(ChildNames)}

InitResolve ==
    /\ arguments = <<>>
    /\ \E argss \in ResolveInputs : outcome = [op |-> "init", argss |-> argss]
    /\ _sort_key_counter = 0
    /\ groups = <<>>

\* _resolve_parameter_name(*argss)
ResolveParameterName ==
    /\ outcome.op = "init"
    /\ outcome' = [op |-> "_resolve_parameter_name", argss |-> outcome.argss,
                   result |-> _resolve_parameter_name(outcome.argss)]
    /\ UNCHANGED <<arguments, _sort_key_counter, groups>>

NextResolve == ResolveParameterName

\* Resolving the names of a nested field from the names of its ancestors.
SpecResolve == InitResolve /\ [][NextResolve]_vars

\* ------------------------------------------------ claims: resolving names
\* _resolve_parameter_name returned for a parent tuple and a child tuple.
ResolvedPair ==
    outcome.op = "_resolve_parameter_name" /\ Len(outcome.argss) = 2

\* The name a1 followed by a "." unless it ends with one.
WithDot(a1) == IF EndsWith(a1, ".") THEN a1 ELSE a1 \o <<".">>

\* C11: for parent names that start with "-" (and do not end with "*") and
\* child names that do not start with "-", _resolve_parameter_name returns,
\* parent by parent, each child name behind the parent name with exactly
\* one "." between them; ("--foo.",) with ("bar",) and ("--foo",) with
\* ("bar",) both give ("--foo.bar",).
C11_JoinedByOneDot ==
    ResolvedPair =>
        LET a1s == outcome.argss[1]
            a2s == outcome.argss[2]
        IN  /\ ((\A i \in 1..Len(a1s) :
                     StartsWith(a1s[i], <<"-">>) /\ ~EndsWith(a1s[i], "*"))
                /\ \A j \in 1..Len(a2s) : ~StartsWith(a2s[j], <<"-">>))
               => outcome.result =
                      [k \in 1..(Len(a1s) * Len(a2s)) |->
                           WithDot(a1s[((k - 1) \div Len(a2s)) + 1])
                               \o a2s[((k - 1) % Len(a2s)) + 1]]
            /\ (a1s \in {<<Str_foo>>, <<Str_foo_dot>>} /\ a2s = <<Str_bar>>)
               => outcome.result = <<Str_foo_bar>>

\* C11 witness: ("--foo.",) with ("bar",) was resolved to ("--foo.bar",).
C11_Witness ==
    /\ ResolvedPair
    /\ outcome.argss = <<(<<Str_foo_dot>>), (<<Str_bar>>)>>
    /\ outcome.result = <<Str_foo_bar>>

\* C12: _resolve_parameter_name(("*",), ("bar",)) returns ("bar",).
C12_WildcardAddsNoPrefix ==
    (ResolvedPair /\ outcome.argss = <<(<<Str_star>>), (<<Str_bar>>)>>)
        => outcome.result = <<Str_bar>>

\* C12 as the code has it: _resolve_parameter_name(("*",), a2s) returns the
\* names of a2s, one that starts with "-" as it is and any other behind
\* "--", so ("*",) with ("bar",) gives ("--bar",): the wildcard parent adds
\* none of its own name to the child name.
C12_WildcardGivesDashes ==
    (ResolvedPair /\ outcome.argss[1] = <<Str_star>>)
        => outcome.result =
               [j \in 1..Len(outcome.argss[2]) |->
                    IF StartsWith(outcome.argss[2][j], <<"-">>)
                    THEN outcome.argss[2][j]
                    ELSE <<"-", "-">> \o outcome.argss[2][j]]

\* C12 witness: ("*",) with ("bar",) was resolved to ("--bar",).
C12_Witness ==
    /\ ResolvedPair
    /\ outcome.argss = <<(<<Str_star>>), (<<Str_bar>>)>>
    /\ outcome.result = <<(<<"-", "-">> \o Str_bar)>>

\* C13: a child name that starts with "-" is among the names
\* _resolve_parameter_name returns, as it is, whatever the parent tuple.
C13_DashChildPassedThrough ==
    ResolvedPair =>
        \A j \in 1..Len(outcome.argss[2]) :
            StartsWith(outcome.argss[2][j], <<"-">>)
                => \E k \in 1..Len(outcome.result) :
                       outcome.result[k] = outcome.argss[2][j]

\* The pass constructed the record of the Argument at position i: its
\* constructor was called and returned.
Constructed(i) ==
    /\ Converted
    /\ \E k \in 1..Len(outcome.calls) :
           outcome.calls[k] = Call("constructor", i, arguments[i].hint)
    /\ outcome.exc # "TypeError"

\* C14: a pass that constructs the record of a TypedDict Argument with a
\* required field that has no token in its subtree ends with a
\* MissingArgumentError.
C14_MissingRequiredField ==
    \A i \in 1..Len(arguments) :
        (/\ Constructed(i)
         /\ arguments[i].hint \in TypedDictHints
         /\ RequiredKeys(arguments[i].hint) \ DataKeys(arguments, arguments[i]) # {})
            => outcome.exc = "MissingArgumentError"

\* C15: a pass never ends with the ValueError (AssertionError, TypeError) of
\* a validator that Argument.validate ran, and when it ends with the
\* ValidationError of the Argument at position i, the error is attached to
\* the token of the Argument if it has exactly one token and no children,
\* and to the Argument otherwise.
C15_ValidatorFailuresWrapped ==
    Converted =>
        /\ outcome.at # 0 => outcome.exc = "ValidationError"
        /\ outcome.exc = "ValidationError" =>
               outcome.attached =
                   IF /\ Len(arguments[outcome.at].tokens) = 1
                      /\ arguments[outcome.at].children = <<>>
                   THEN "token" ELSE "argument"

\* ------------------------------------------------------- group extractors
\* The attrs-generated Group.__eq__: the tuples of all fields are equal
\* (the fields the model leaves out hold their defaults in every Group).
GroupEq(self, other) ==
    <<self.name, self._sort_key>> = <<other.name, other._sort_key>>

\* A reference to a group in Parameter(group=...): a str or a Group.
StrRef(name) == [type |-> "str", name |-> name, group |-> Group(name, NoneKey)]
GroupRef(group) == [type |-> "Group", name |-> group.name, group |-> group]

\* _create_or_append that never finds the group in the mapping.
CreateAlways(group_mapping, ref, iparam) ==
    LET group == IF ref.type = "str" THEN Group(ref.name, NoneKey) ELSE ref.group
    IN  Append(group_mapping, [group |-> group, members |-> <<iparam>>])

\* _create_or_append(group_mapping, group, iparam): the mapping after it.
\* An entry is a (Group, members) pair.
_create_or_append(group_mapping, ref, iparam) ==
    LET group == IF ref.type = "str" THEN Group(ref.name, NoneKey) ELSE ref.group
        equal == {j \in 1..Len(group_mapping) : GroupEq(group_mapping[j].group, group)}
    IN  IF equal # {}
        THEN LET j == CHOOSE x \in equal : \A y \in equal : x <= y
             IN  [group_mapping EXCEPT ![j].members = Append(@, iparam)]
        ELSE Append(group_mapping, [group |-> group, members |-> <<iparam>>])

\* The default groups of a command.
Str_Arguments  == <<"A", "r", "g", "u", "m", "e", "n", "t", "s">>
Str_Parameters == <<"P", "a", "r", "a", "m", "e", "t", "e", "r", "s">>
Str_Commands   == <<"C", "o", "m", "m", "a", "n", "d", "s">>
default_group_arguments == Group(Str_Arguments, NoneKey)
default_group_parameters == Group(Str_Parameters, NoneKey)
default_group_commands == Group(Str_Commands, NoneKey)

\* The loop over cparam.group of one parameter.
RECURSIVE AssignToGroups(_, _, _)
AssignToGroups(group_mapping, refs, iparam) ==
    IF refs = <<>> THEN group_mapping
    ELSE AssignToGroups(_create_or_append(group_mapping, Head(refs), iparam),
                        Tail(refs), iparam)

\* The loop of groups_from_function over the parameters k.. of f.  The
\* Groups of the model have no default_parameter, so none is rejected.
RECURSIVE AssignParameters(_, _, _)
AssignParameters(group_mapping, f, k) ==
    IF k > Len(f) THEN group_mapping
    ELSE LET iparam == f[k]
             next == IF ~iparam.parse THEN group_mapping
                     ELSE IF iparam.group # <<>>
                     THEN AssignToGroups(group_mapping, iparam.group, k)
                     ELSE IF iparam.kind = POSITIONAL_ONLY
                     THEN _create_or_append(group_mapping,
                              GroupRef(default_group_arguments), k)
                     ELSE _create_or_append(group_mapping,
                              GroupRef(default_group_parameters), k)
         IN  AssignParameters(next, f, k + 1)

\* groups_from_function(f, default_parameter, default_group_arguments,
\* default_group_parameters): f is the sequence of its parameters, each
\* with its kind and the group and parse of its Parameter; the members of
\* an entry are the positions of the parameters in f.
groups_from_function(f) ==
    LET group_mapping ==
            AssignParameters(<<[group |-> default_group_arguments, members |-> <<>>],
                               [group |-> default_group_parameters, members |-> <<>>]>>,
                             f, 1)
    IN  SelectSeq(group_mapping, LAMBDA x : x.members # <<>>)

\* groups_from_app(app): the exception it raises, or the list it returns.
\* app._commands is the sequence of the sub-commands' groups, each the
\* empty sequence (None) or a one-element sequence.
groups_from_app(app) ==
    LET group_mapping == <<[group |-> app.default_group_commands, members |-> <<>>]>>
    IN  IF \E k \in 1..Len(app._commands) : app._commands[k] = <<>>
        THEN [exc |-> "NotImplementedError", result |-> <<>>]
        ELSE [exc |-> "none",
              result |-> SelectSeq(group_mapping, LAMBDA x : x.members # <<>>)]

\* The group=... of the Parameters of the model: none, a name, a Group of
\* that name with a sort key, two names.
ParameterGroups ==
    {<<>>, <<StrRef(<<"A">>)>>, <<GroupRef(Group(<<"A">>, IntKey(1)))>>,
     <<StrRef(<<"Z">>), StrRef(<<"A">>)>>}

\* The callables of the model: at most MaxParams parameters, each parsed
\* with one of these groups, or not parsed.
SignatureParameters ==
    [kind : {POSITIONAL_ONLY, POSITIONAL_OR_KEYWORD}, group : ParameterGroups,
     parse : {TRUE}]
    \cup {[kind |-> POSITIONAL_OR_KEYWORD, group |-> <<>>, parse |-> FALSE]}

Signatures == UNION {[1..n -> SignatureParameters] : n \in 0..MaxParams}

\* The Apps of the model: at most MaxCommands sub-commands, each without a
\* group or with one.
Apps ==
    [default_group_commands : {default_group_commands},
     _commands : UNION {[1..n -> {<<>>, <<Group(<<"A">>, NoneKey)>>}] :
                            n \in 0..MaxCommands}]

InitExtract ==
    /\ arguments = <<>>
    /\ \E f \in Signatures, app \in Apps :
           outcome = [op |-> "init", f |-> f, app |-> app]
    /\ _sort_key_counter = 0
    /\ groups = <<>>

\* groups_from_function(f, ...)
GroupsFromFunction ==
    /\ outcome.op = "init"
    /\ outcome' = [op |-> "groups_from_function", f |-> outcome.f,
                   result |-> groups_from_function(outcome.f)]
    /\ UNCHANGED <<arguments, _sort_key_counter, groups>>

\* groups_from_app(app)
GroupsFromApp ==
    /\ outcome.op = "init"
    /\ LET r == groups_from_app(outcome.app)
       IN  outcome' = [op |-> "groups_from_app", app |-> outcome.app,
                       exc |-> r.exc, result |-> r.result]
    /\ UNCHANGED <<arguments, _sort_key_counter, groups>>

NextExtract == GroupsFromFunction \/ GroupsFromApp

\* Extracting the groups of a callable and of an App.
SpecExtract == InitExtract /\ [][NextExtract]_vars

\* ----------------------------------------------- claims: group extractors
\* groups_from_function returned.
Extracted == outcome.op = "groups_from_function"

\* C16: two Groups are equal exactly when their names are equal, so the
\* list groups_from_function returns has one entry for a name: a parameter
\* that names a group by a str joins the entry of the Group of that name.
C16_GroupsEqualByName ==
    Extracted =>
        LET result == outcome.result
        IN  /\ \A i, j \in 1..Len(result) :
                   GroupEq(result[i].group, result[j].group)
                       <=> result[i].group.name = result[j].group.name
            /\ \A i, j \in 1..Len(result) :
                   result[i].group.name = result[j].group.name => i = j

\* The groups the parameter at position k of f is assigned to.
Targets(f, k) ==
    IF f[k].group # <<>> THEN {f[k].group[r].group : r \in 1..Len(f[k].group)}
    ELSE IF f[k].kind = POSITIONAL_ONLY THEN {default_group_arguments}
    ELSE {default_group_parameters}

\* C18: the list groups_from_function returns holds the groups with a
\* member, each parsed parameter in its groups, and an entry stands before
\* another whenever its first member stands earlier in the signature.
C18_FirstEncounteredOrder ==
    Extracted =>
        LET result == outcome.result
            f == outcome.f
        IN  /\ \A i \in 1..Len(result) : result[i].members # <<>>
            /\ \A k \in 1..Len(f) :
                   f[k].parse =>
                       \A g \in Targets(f, k) :
                           \E i \in 1..Len(result) :
                               /\ GroupEq(result[i].group, g)
                               /\ \E m \in 1..Len(result[i].members) :
                                      result[i].members[m] = k
            /\ \A i, j \in 1..Len(result) :
                   result[i].members[1] < result[j].members[1] => i < j

\* Where an entry stands: the default Arguments group first, the default
\* Parameters group second, any other group by the first reference to it
\* (the position of the parameter, then the place in its group tuple).
Rank(f, group) ==
    IF GroupEq(group, default_group_arguments) THEN 0
    ELSE IF GroupEq(group, default_group_parameters) THEN 1
    ELSE LET refs == {k * 4 + r : k \in 1..Len(f), r \in 1..2}
             made == {x \in refs :
                          LET k == x \div 4
                              r == x % 4
                          IN  /\ f[k].parse
                              /\ r <= Len(f[k].group)
                              /\ GroupEq(f[k].group[r].group, group)}
         IN  CHOOSE x \in made : \A y \in made : x <= y

\* C18 as the code has it: the list groups_from_function returns holds the
\* entries with a member, each parsed parameter in the entries of its
\* groups and in no other; the entry of the default Arguments group comes
\* first, that of the default Parameters group next, and the entries of
\* the other groups follow in the order in which they were first referenced.
C18_DefaultsThenFirstReferenced ==
    Extracted =>
        LET result == outcome.result
            f == outcome.f
        IN  /\ \A i \in 1..Len(result) : result[i].members # <<>>
            /\ \A i \in 1..Len(result) :
                   \A m \in 1..Len(result[i].members) :
                       /\ f[result[i].members[m]].parse
                       /\ \E g \in Targets(f, result[i].members[m]) :
                              GroupEq(result[i].group, g)
            /\ \A k \in 1..Len(f) :
                   f[k].parse =>
                       \A g \in Targets(f, k) :
                           \E i \in 1..Len(result) :
                               /\ GroupEq(result[i].group, g)
                               /\ \E m \in 1..Len(result[i].members) :
                                      result[i].members[m] = k
            /\ \A i, j \in 1..Len(result) :
                   i < j => Rank(f, result[i].group) < Rank(f, result[j].group)

\* C18 witness: the first parameter names the group "A", the second none;
\* the default Parameters group with the second parameter was returned
\* before "A" with the first.
C18_Witness ==
    /\ Extracted
    /\ Len(outcome.f) = 2
    /\ outcome.f[1].group = <<StrRef(<<"A">>)>>
    /\ outcome.f[2] = [kind |-> POSITIONAL_OR_KEYWORD, group |-> <<>>, parse |-> TRUE]
    /\ outcome.result = <<[group |-> default_group_parameters, members |-> <<2>>],
                          [group |-> Group(<<"A">>, NoneKey), members |-> <<1>>]>>

\* C19: groups_from_app raises nothing and returns the default Commands
\* group with the sub-commands that have no group, or no entry when there
\* is no such sub-command.
C19_CommandsGroup ==
    outcome.op = "groups_from_app" =>
        LET commands == outcome.app._commands
            members == SelectSeq([k \in 1..Len(commands) |-> k],
                                 LAMBDA k : commands[k] = <<>>)
        IN  /\ outcome.exc = "none"
            /\ outcome.result =
                   IF members = <<>> THEN <<>>
                   ELSE <<[group |-> outcome.app.default_group_commands,
                           members |-> members]>>

\* ---------------------------------------------------------------- filter
\* ArgumentCollection.filter_by(group=..., kind=..., has_tokens=...,
\* has_tree_tokens=..., keys_prefix=..., show=..., value_set=...): the
\* positions of the Arguments of the returned collection.  group and
\* keys_prefix are <<>> for None and a one-element sequence otherwise; the
\* bools are None, "True" or "False".
filter_by(self, group, kind, has_tokens, has_tree_tokens, keys_prefix, show, value_set) ==
    LET Xor(a, b) == a # b
        Keep(x) ==
            /\ group # <<>> =>
                   \E r \in 1..Len(x.cparam.group) : GroupEq(group[1], x.cparam.group[r])
            /\ kind # None => x.iparam.kind = kind
            /\ has_tokens # None => ~Xor(x.tokens # <<>>, has_tokens = "True")
            /\ has_tree_tokens # None => ~Xor(x.tokens # <<>>, has_tree_tokens = "True")
            /\ keys_prefix # <<>> =>
                   SubSeq(x.keys, 1, IF Len(keys_prefix[1]) < Len(x.keys)
                                     THEN Len(keys_prefix[1]) ELSE Len(x.keys))
                       = keys_prefix[1]
            /\ show # None => ~Xor(x.cparam.show, show = "True")
            /\ value_set # None => Xor(x._value = UNSET, value_set = "True")
    IN  SelectSeq([i \in 1..Len(self) |-> i], LAMBDA i : Keep(self[i]))

\* The predicates filter_by is called with in the model: at most two of
\* them are not None.
Predicates ==
    LET all == [group : {<<>>, <<Group(<<"A">>, NoneKey)>>},
                kind : {None, POSITIONAL_OR_KEYWORD},
                has_tokens : {None, "True", "False"},
                has_tree_tokens : {None, "True", "False"},
                keys_prefix : {<<>>, <<(<<"b">>)>>},
                show : {None, "False"},
                value_set : {None, "True"}]
        Supplied(p) == Cardinality({k \in {"kind", "has_tokens", "has_tree_tokens",
                                           "show", "value_set"} : p[k] # None})
                       + Cardinality({k \in {"group", "keys_prefix"} : p[k] # <<>>})
    IN  {p \in all : Supplied(p) <= 2}

\* collection.filter_by(**p)
FilterBy(p) ==
    /\ outcome' = [op |-> "ArgumentCollection.filter_by", by |-> p,
                   result |-> filter_by(arguments, p.group, p.kind, p.has_tokens,
                                        p.has_tree_tokens, p.keys_prefix, p.show,
                                        p.value_set)]
    /\ UNCHANGED <<arguments, _sort_key_counter, groups>>

\* The TypedDict parameter of the filtered collections: shown and in no
\* group, or hidden and in the group "A".
FilterDeclarations ==
    LET plain == Declared({POSITIONAL_OR_KEYWORD}, TypedDictHints,
                          Cparams({<<>>}, {<<>>}, {None}))
    IN  plain \cup {[d EXCEPT !.cparam.group = <<Group(<<"A">>, NoneKey)>>,
                              !.cparam.show = FALSE] : d \in plain}

InitFilter ==
    /\ \E d \in FilterDeclarations :
           arguments = _from_type([name |-> ParameterName(0), kind |-> d.kind],
                                  d.hint, d.cparam, <<0>>, 1)
    /\ outcome = [op |-> "init"]
    /\ _sort_key_counter = 0
    /\ groups = <<>>

NextFilter ==
    \/ \E i \in 1..3, token \in FieldTokens : AppendToken(i, token)
    \/ \E fault \in Faults : ConvertCollection(fault)
    \/ \E p \in Predicates : FilterBy(p)

\* Appending tokens to the Arguments of a callable with one TypedDict
\* parameter, converting the collection and filtering it.
SpecFilter == InitFilter /\ [][NextFilter]_vars

\* C17: filter_by returns, in the order of the collection, the Arguments
\* that satisfy every predicate that is not None; has_tree_tokens=True
\* keeps the Arguments with a token on themselves or on a descendant,
\* has_tree_tokens=False the others.
C17_FilterKeepsMatching ==
    outcome.op = "ArgumentCollection.filter_by" =>
        LET p == outcome.by
            Satisfies(i) ==
                LET x == arguments[i]
                IN  /\ p.group # <<>> =>
                           \E r \in 1..Len(x.cparam.group) : x.cparam.group[r] = p.group[1]
                    /\ p.kind # None => x.iparam.kind = p.kind
                    /\ p.has_tokens # None =>
                           ((Len(x.tokens) > 0) <=> p.has_tokens = "True")
                    /\ p.has_tree_tokens # None =>
                           ((n_tree_tokens(arguments, i) > 0) <=> p.has_tree_tokens = "True")
                    /\ p.keys_prefix # <<>> =>
                           /\ Len(p.keys_prefix[1]) <= Len(x.keys)
                           /\ \A k \in 1..Len(p.keys_prefix[1]) : x.keys[k] = p.keys_prefix[1][k]
                    /\ p.show # None => (x.cparam.show <=> p.show = "True")
                    /\ p.value_set # None => ((x._value # UNSET) <=> p.value_set = "True")
        IN  /\ \A i \in 1..Len(arguments) :
                   Satisfies(i) <=> \E r \in 1..Len(outcome.result) : outcome.result[r] = i
            /\ \A r, q \in 1..Len(outcome.result) :
                   r < q => outcome.result[r] < outcome.result[q]

\* ------------------------------------------------ claims: one pass, once
\* How often fn was entered for the Argument at position i in the pass.
Entered(fn, i) ==
    Cardinality({k \in 1..Len(outcome.calls) :
                     outcome.calls[k].fn = fn /\ outcome.calls[k].self = i})

\* C20: in one pass of ArgumentCollection.convert, Argument._convert and
\* Argument.validate are entered at most once for each Argument of the
\* collection, and after a pass that raised nothing every Argument is
\* marked converted.
C20_ConvertedOncePerPass ==
    Converted =>
        /\ \A i \in 1..Len(arguments) :
               Entered("_convert", i) <= 1 /\ Entered("validate", i) <= 1
        /\ outcome.exc = "none" =>
               \A i \in 1..Len(arguments) : _marked(arguments[i])

\* C20 witness: a pass raised nothing over a record node and its children,
\* one of which holds a token and was converted and validated from within
\* the record node, the other of which holds none.
C20_Witness ==
    /\ Converted
    /\ outcome.exc = "none"
    /\ Len(arguments) = 3
    /\ arguments[1].children = <<2, 3>>
    /\ arguments[2].tokens # <<>>
    /\ arguments[3].tokens = <<>>
    /\ Entered("_convert", 1) = 1
    /\ Entered("_convert", 2) = 1
    /\ Entered("validate", 2) = 1
    /\ Entered("_convert", 3) = 1

\* --------------------------------------------- claims: implicit values
\* C21: a Token of an Argument that carries an implicit value is the only
\* Token of that Argument, whatever was appended, so a pass of
\* ArgumentCollection.convert never fails on the assertion of _convert.
C21_ImplicitTokenIsSole ==
    /\ \A i \in 1..Len(arguments) :
           \A k \in 1..Len(arguments[i].tokens) :
               arguments[i].tokens[k].implicit_value # None
                   => Len(arguments[i].tokens) = 1
    /\ Converted => outcome.exc # "AssertionError"

\* ------------------------------------------- claims: a child's converter
\* C22: in a pass of ArgumentCollection.convert, the Argument of a nested
\* field is converted with the converter of its own cparam, which is not
\* the converter configured on its parent: _convert is entered for it with
\* that converter, and that converter is the one applied to its tokens.
C22_ChildOwnConverter ==
    Converted =>
        \A k \in 1..Len(outcome.calls) :
            LET call == outcome.calls[k]
            IN  /\ call.fn \in {"_convert", "converter"}
                /\ arguments[call.self].keys # <<>>
                => call.by = arguments[call.self].cparam.converter

\* --------------------------------------------------------------- override
\* argument.value = val from outside a conversion, on the Argument at
\* position i.
AssignValue(i) ==
    /\ i \in 1..Len(arguments)
    /\ arguments' = [arguments EXCEPT ![i] = SetValue(@, "assigned")]
    /\ outcome' = [op |-> "Argument.value", self |-> i]
    /\ UNCHANGED <<_sort_key_counter, groups>>

\* The calls that may raise here are those made for the first field.
NextOverride ==
    \/ \E i \in 1..3, token \in FieldTokens : AppendToken(i, token)
    \/ \E fault \in {f \in Faults : f.self = 2} : ConvertCollection(fault)
    \/ \E i \in 1..2 : AssignValue(i)

\* Appending tokens to the Arguments of a callable with one TypedDict
\* parameter, converting the collection and assigning values.
SpecOverride == InitTypedDict /\ [][NextOverride]_vars

\* C23: an Argument whose value was assigned while it was marked converted
\* holds the assigned value from then on, and no pass of
\* ArgumentCollection.convert enters _convert for it.
C23_OverrideKept ==
    \A i \in 1..Len(arguments) :
        arguments[i]._mark_converted_override =>
            /\ arguments[i]._value = "assigned"
            /\ Converted => Entered("_convert", i) = 0

\* C23 witness: a pass that raised nothing went over a record node, which
\* it converted, and over its child, which holds a token and whose value
\* had been assigned while it was marked.
C23_Witness ==
    /\ Converted
    /\ outcome.exc = "none"
    /\ Len(arguments) = 3
    /\ arguments[2]._mark_converted_override
    /\ arguments[2].tokens # <<>>
    /\ Entered("_convert", 1) = 1
    /\ Entered("validate", 2) = 1

\* ------------------------------------------------- claims: the catch-all
\* C24: the match of a var-keyword Argument on a str term succeeds with at
\* least one leftover key and the implicit value None; and when another
\* Argument of the collection matches a str term with no leftover keys,
\* ArgumentCollection.match returns an Argument that is not var-keyword,
\* with no leftover keys, wherever the var-keyword Argument stands.
C24_CatchAllNeverBeatsExact ==
    /\ (/\ outcome.op = "Argument.match"
        /\ ~outcome.term.isint
        /\ arguments[outcome.self].iparam.kind = VAR_KEYWORD) =>
           /\ outcome.result.exc = "none"
           /\ Len(outcome.result.keys) >= 1
           /\ outcome.result.implicit_value = None
    /\ (/\ outcome.op = "ArgumentCollection.match"
        /\ ~outcome.term.isint
        /\ \E j \in Succeeding :
               /\ arguments[j].iparam.kind # VAR_KEYWORD
               /\ MatchOf(j).keys = <<>>) =>
           /\ outcome.result.exc = "none"
           /\ arguments[outcome.result.argument].iparam.kind # VAR_KEYWORD
           /\ outcome.result.keys = <<>>

\* C24 witness: the var-keyword Argument stands first in the collection,
\* and ArgumentCollection.match returned the Argument behind it, which
\* matches the term with no leftover keys.
C24_Witness ==
    /\ outcome.op = "ArgumentCollection.match"
    /\ ~outcome.term.isint
    /\ Len(arguments) >= 2
    /\ arguments[1].iparam.kind = VAR_KEYWORD
    /\ 1 \in Succeeding
    /\ outcome.result.exc = "none"
    /\ outcome.result.argument > 1
    /\ outcome.result.keys = <<>>

\* ------------------------------------------ claims: sorting keeps pairs
\* C25: the two lists sort_groups returns are as long as its inputs and
\* hold the input (group, attribute) pairs, each once: the attributes
\* passed in are the input positions 1..n, so each position occurs once
\* among the attributes returned, and the group returned beside an
\* attribute is the group passed in at that position; empty inputs are
\* returned as they are.
C25_PairsPermuted ==
    Sorted =>
        LET input == outcome.input
            out == outcome.result
            n == Len(input)
        IN  /\ Len(out.groups) = n
            /\ Len(out.attributes) = n
            /\ \A k \in 1..n :
                   /\ out.attributes[k] \in 1..n
                   /\ out.groups[k] = input[out.attributes[k]]
            /\ \A i \in 1..n : \E k \in 1..n : out.attributes[k] = i
            /\ n = 0 => out.groups = <<>> /\ out.attributes = <<>>

\* C25 witness: three groups were sorted, one of them passed in twice, and
\* no pair came out at the position it went in at.
C25_Witness ==
    /\ Sorted
    /\ Len(outcome.input) = 3
    /\ \E i, j \in 1..3 : i # j /\ outcome.input[i] = outcome.input[j]
    /\ \A k \in 1..3 : outcome.result.attributes[k] # k

====
